---- MODULE Spec2Model ----
(***************************************************************************)
(* A model of symbol_graph.py: the decoder of mangled names                *)
(* (demangle_rust), the parser of a disassembly listing (parse_edges),     *)
(* the reader of the size table (symbol_sizes), the two writers of the     *)
(* reference graph (to_dot, to_digraph) and the dominator tree             *)
(* (dominator_tree).                                                       *)
(*                                                                         *)
(* A Python str is a sequence of one-character strings; an exception is    *)
(* the result Raise; None is the value None.                               *)
(***************************************************************************)
EXTENDS Integers, Sequences, FiniteSets

VARIABLES
  d_sym, d_ret, d_ret2, d_pc,       \* demangle_rust: argument, results, position
  asm, p_i, p_sym, p_out, p_pc,     \* parse_edges: text, line, sym, pairs, position
  nm_out, s_i, sizes, s_pc,         \* symbol_sizes: text, line, dict, position
  edges, table, m_i, stdout, gr, m_pc,  \* main: tool outputs, loop index, prints, graph
  t_gr, n0, tr, t_pc                \* dominator_tree: graph, root, tree, position

dvars == <<d_sym, d_ret, d_ret2, d_pc>>

pvars == <<asm, p_i, p_sym, p_out, p_pc>>

svars == <<nm_out, s_i, sizes, s_pc>>

mvars == <<edges, table, m_i, stdout, gr, m_pc>>

tvars == <<t_gr, n0, tr, t_pc>>

vars == <<dvars, pvars, svars, mvars, tvars>>

\* What a step of one function leaves alone.
notD == <<pvars, svars, mvars, tvars>>

notP == <<dvars, svars, mvars, tvars>>

notS == <<dvars, pvars, mvars, tvars>>

notM == <<dvars, pvars, svars, tvars>>

notT == <<dvars, pvars, svars, mvars>>

(***************************************************************************)
(* Python values and str operations                                        *)
(***************************************************************************)

\* None: a value that is no str (every element of a str is one character).
None == <<"None">>

\* A call that returned val.
Return(val) == [err |-> FALSE, val |-> val]

\* A call that ended in an exception.
Raise == [err |-> TRUE, val |-> <<>>]

\* No call made yet.
Pending == [err |-> FALSE, val |-> None]

Min(a, b) == IF a <= b THEN a ELSE b

\* s[:n] for n >= 0.
Take(s, n) == SubSeq(s, 1, Min(n, Len(s)))

\* s[n:] for n >= 0.
Drop(s, n) == SubSeq(s, Min(n, Len(s)) + 1, Len(s))

\* s.startswith(p)
StartsWith(s, p) == Len(s) >= Len(p) /\ SubSeq(s, 1, Len(p)) = p

DecDigits == <<"0", "1", "2", "3", "4", "5", "6", "7", "8", "9">>

Digits == {DecDigits[k] : k \in 1..10}

\* c.isnumeric(), for the ASCII characters.
isnumeric(c) == c \in Digits

DigitVal(c) == (CHOOSE k \in 1..10 : DecDigits[k] = c) - 1

\* int(s) of a non-empty run of decimal digits.
RECURSIVE int(_)
int(s) ==
  IF s = <<>> THEN 0
  ELSE 10 * int(SubSeq(s, 1, Len(s) - 1)) + DigitVal(s[Len(s)])

\* str(n) of an integer n >= 0, as an f-string formats it.
RECURSIVE str(_)
str(n) ==
  IF n < 10 THEN <<DecDigits[n + 1]>>
  ELSE Append(str(n \div 10), DecDigits[(n % 10) + 1])

\* s.replace(old, new): the non-overlapping occurrences of old, leftmost first.
RECURSIVE replace(_, _, _)
replace(s, old, new) ==
  IF s = <<>> THEN <<>>
  ELSE IF StartsWith(s, old) THEN new \o replace(Drop(s, Len(old)), old, new)
  ELSE <<s[1]>> \o replace(Drop(s, 1), old, new)

\* sep.join(parts)
RECURSIVE join(_, _)
join(sep, parts) ==
  IF parts = <<>> THEN <<>>
  ELSE IF Len(parts) = 1 THEN parts[1]
  ELSE parts[1] \o sep \o join(sep, Drop(parts, 1))

\* The sequences of at most n elements of S: the inputs tried.
SeqsUpTo(S, n) == UNION { [1..k -> S] : k \in 0..n }

\* The concatenation of the strings of ss.
RECURSIVE Flatten(_)
Flatten(ss) == IF ss = <<>> THEN <<>> ELSE ss[1] \o Flatten(Drop(ss, 1))

(***************************************************************************)
(* The functions not in use in a run of one of them                        *)
(***************************************************************************)

\* The decoder not in use.
DIdle == d_sym = <<>> /\ d_ret = Pending /\ d_ret2 = Pending /\ d_pc = "idle"

\* The parser not in use.
PIdle ==
  asm = <<>> /\ p_i = 0 /\ p_sym = None /\ p_out = <<>> /\ p_pc = "idle"

\* The size table not in use.
SIdle == nm_out = <<>> /\ s_i = 0 /\ sizes = <<>> /\ s_pc = "idle"

\* The graph output not in use.
MIdle ==
  /\ edges = <<>> /\ table = <<>> /\ m_i = 0 /\ stdout = <<>>
  /\ gr = [nodes |-> {}, edges |-> {}, size |-> <<>>]
  /\ m_pc = "idle"

\* The dominator tree not in use.
TIdle ==
  /\ t_gr = [nodes |-> {}, edges |-> {}]
  /\ n0 = "" /\ tr = [nodes |-> {}, edges |-> {}] /\ t_pc = "idle"

(***************************************************************************)
(* encode_symbol and demangle_rust                                         *)
(***************************************************************************)

encode_symbol(sym) == replace(sym, <<"\"">>, <<"\\", "\"">>)

Marker == <<"_", "Z", "N">>

\* The inner while loop: the index i of the first character of sym, after
\* the first, that is not a digit. sym[i] is read before i < len(sym) is
\* tested, so a run of digits that reaches the end of sym raises IndexError
\* (the result 0 here).
RECURSIVE DigitRun(_, _)
DigitRun(sym, i) ==
  IF i >= Len(sym) THEN 0
  ELSE IF isnumeric(sym[i + 1]) THEN DigitRun(sym, i + 1)
  ELSE i

\* The slice parts[:-1] in the place of parts[:-2].
DropLastOne(parts) ==
  IF Len(parts) <= 1 THEN <<>> ELSE SubSeq(parts, 1, Len(parts) - 1)

\* The slice parts[:-2].
DropLastTwo(parts) ==
  IF Len(parts) <= 2 THEN <<>> ELSE SubSeq(parts, 1, Len(parts) - 2)

\* The loop as `while sym:`, which ends at the end of sym instead of reading
\* sym[0].
RECURSIVE ParseWhileSym(_, _)
ParseWhileSym(sym, parts) ==
  IF sym = <<>> THEN Return(parts)
  ELSE IF sym[1] = "_" THEN Return(Append(parts, sym))
  ELSE IF ~isnumeric(sym[1]) THEN Return(Append(parts, sym))
  ELSE LET i == DigitRun(sym, 1) IN
       IF i = 0 THEN Raise
       ELSE LET n == int(Take(sym, i))
                rest == Drop(sym, i)
            IN  ParseWhileSym(Drop(rest, n), Append(parts, Take(rest, n)))

\* The while True loop: the list parts at the break, or Raise.
RECURSIVE ParseParts(_, _)
ParseParts(sym, parts) ==
  IF sym = <<>> THEN Raise
  ELSE IF sym[1] = "_" THEN Return(Append(parts, sym))
  ELSE IF ~isnumeric(sym[1]) THEN Return(Append(parts, sym))
  ELSE LET i == DigitRun(sym, 1) IN
       IF i = 0 THEN Raise
       ELSE LET n == int(Take(sym, i))
                rest == Drop(sym, i)
            IN  ParseParts(Drop(rest, n), Append(parts, Take(rest, n)))

\* The three substitutions, in the order of the source.
Substitute(sym) ==
  replace(replace(replace(sym, <<"$", "u", "2", "0", "$">>, <<" ">>),
                  <<"$", "L", "T", "$">>, <<"<">>),
          <<"$", "G", "T", "$">>, <<">">>)

demangle_rust(sym) ==
  IF sym = None THEN Raise
  ELSE IF StartsWith(sym, Marker) THEN
    LET p == ParseParts(Drop(sym, 3), <<>>) IN
    IF p.err THEN Raise
    ELSE Return(Substitute(join(<<":", ":">>, DropLastTwo(p.val))))
  ELSE Return(sym)

(***************************************************************************)
(* parse_edges                                                             *)
(***************************************************************************)

Lower ==
  {"a","b","c","d","e","f","g","h","i","j","k","l","m","n","o","p","q","r",
   "s","t","u","v","w","x","y","z"}

Upper ==
  {"A","B","C","D","E","F","G","H","I","J","K","L","M","N","O","P","Q","R",
   "S","T","U","V","W","X","Y","Z"}

\* [\w], for the ASCII characters.
WordChars == Lower \cup Upper \cup Digits \cup {"_"}

\* [0-9a-f]
HexLower == Digits \cup {"a", "b", "c", "d", "e", "f"}

\* The length of the longest run of characters of S in s from index k on:
\* what a greedy S+ consumes there.
RECURSIVE Run(_, _, _)
Run(s, k, S) ==
  IF k <= Len(s) /\ s[k] \in S THEN 1 + Run(s, k + 1, S) ELSE 0

\* new_symbol_re.match(line): group(1), or None. No character of a run is
\* one that may follow the run, so the greedy match is the only one.
new_symbol_match(line) ==
  LET h == Run(line, 1, HexLower)
      w == Run(line, h + 3, WordChars)
  IN  IF /\ h >= 1
         /\ Len(line) >= h + 2
         /\ line[h + 1] = " "
         /\ line[h + 2] = "<"
         /\ w >= 1
         /\ Len(line) >= h + w + 4
         /\ line[h + w + 3] = ">"
         /\ line[h + w + 4] = ":"
      THEN SubSeq(line, h + 3, h + w + 2)
      ELSE None

\* symbol_ref_re.findall(line) from index k on: group(1) of the
\* non-overlapping matches, left to right.
RECURSIVE findall(_, _)
findall(line, k) ==
  IF k > Len(line) THEN <<>>
  ELSE LET w == Run(line, k + 1, WordChars) IN
       IF /\ line[k] = "<"
          /\ w >= 1
          /\ k + w + 1 <= Len(line)
          /\ line[k + w + 1] = ">"
       THEN <<SubSeq(line, k + 1, k + w)>> \o findall(line, k + w + 2)
       ELSE findall(line, k + 1)

\* s.split(sep) for a one-character sep: always at least one field.
RECURSIVE split(_, _)
split(s, sep) ==
  LET k == Run(s, 1, {c \in {s[j] : j \in 1..Len(s)} : c # sep}) IN
  IF k = Len(s) THEN <<s>>
  ELSE <<Take(s, k)>> \o split(Drop(s, k + 1), sep)

\* The most lines of a disassembly text.
MaxLines == 3

\* Lines of a listing, each with what it is: the start of a function (and
\* the function's name) or not, and the names it refers to, left to right.
ListingLines ==
  { [text |-> <<"0","a"," ","<","f",">",":">>,
     start |-> TRUE, name |-> <<"f">>, refs |-> <<>>],
    [text |-> <<"1","b"," ","<","g",">",":">>,
     start |-> TRUE, name |-> <<"g">>, refs |-> <<>>],
    [text |-> <<"0","a"," ","<","f",">",":"," ","<","g",">">>,
     start |-> TRUE, name |-> <<"f">>, refs |-> <<>>],
    [text |-> <<" "," ","e","8"," ","<","g",">">>,
     start |-> FALSE, name |-> <<>>, refs |-> << <<"g">> >>],
    [text |-> <<" ","<","g",">"," ","<","h",">">>,
     start |-> FALSE, name |-> <<>>, refs |-> << <<"g">>, <<"h">> >>],
    [text |-> <<"n","o","p">>,
     start |-> FALSE, name |-> <<>>, refs |-> <<>>],
    [text |-> <<>>,
     start |-> FALSE, name |-> <<>>, refs |-> <<>>],
    [text |-> <<"<","h",">">>,
     start |-> FALSE, name |-> <<>>, refs |-> << <<"h">> >>],
    [text |-> <<"z","z"," ","<","f",">",":">>,
     start |-> FALSE, name |-> <<>>, refs |-> << <<"f">> >>],
    [text |-> <<"<","f","+","1",">">>,
     start |-> FALSE, name |-> <<>>, refs |-> <<>>],
    [text |-> <<"<","<","g",">",">">>,
     start |-> FALSE, name |-> <<>>, refs |-> << <<"g">> >>] }

Listings ==
  { join(<<"\n">>, [k \in 1..Len(ls) |-> ls[k].text]) :
      ls \in SeqsUpTo(ListingLines, MaxLines) }

\* parse_edges(asm) up to the loop: sym = None, nothing yielded.
PStart ==
  /\ asm \in Listings
  /\ p_i = 0
  /\ p_sym = None
  /\ p_out = <<>>
  /\ p_pc = "loop"

\* asm.split('\n')
AsmLines == split(asm, "\n")

\* A line that does not change sym: the match taken for no match.
ParseStartKeepsSym ==
  /\ p_pc = "loop"
  /\ p_i < Len(AsmLines)
  /\ new_symbol_match(AsmLines[p_i + 1]) # None
  /\ p_i' = p_i + 1
  /\ UNCHANGED <<asm, p_sym, p_out, p_pc, notP>>

\* One turn of the loop on a line new_symbol_re matches: sym = m.group(1).
ParseStart ==
  /\ p_pc = "loop"
  /\ p_i < Len(AsmLines)
  /\ new_symbol_match(AsmLines[p_i + 1]) # None
  /\ p_sym' = new_symbol_match(AsmLines[p_i + 1])
  /\ p_i' = p_i + 1
  /\ UNCHANGED <<asm, p_out, p_pc, notP>>

\* One turn of the loop on any other line: (sym, ref) is yielded for every
\* ref of the line.
ParseRefs ==
  /\ p_pc = "loop"
  /\ p_i < Len(AsmLines)
  /\ new_symbol_match(AsmLines[p_i + 1]) = None
  /\ LET refs == findall(AsmLines[p_i + 1], 1) IN
     p_out' = p_out \o [k \in 1..Len(refs) |-> <<p_sym, refs[k]>>]
  /\ p_i' = p_i + 1
  /\ UNCHANGED <<asm, p_sym, p_pc, notP>>

\* The lines are used up: the generator ends.
ParseEnd ==
  /\ p_pc = "loop"
  /\ p_i = Len(AsmLines)
  /\ p_pc' = "done"
  /\ UNCHANGED <<asm, p_i, p_sym, p_out, notP>>

PNext == ParseStart \/ ParseRefs \/ ParseEnd

PInit == PStart /\ DIdle /\ SIdle /\ MIdle /\ TIdle

SpecParse == PInit /\ [][PNext]_vars

\* The line of ListingLines with this text.
LineOf(text) == CHOOSE l \in ListingLines : l.text = text

\* The name of the last function start among the first j lines, or None.
RECURSIVE CurrentSymbol(_, _)
CurrentSymbol(lines, j) ==
  IF j = 0 THEN None
  ELSE IF LineOf(lines[j]).start THEN LineOf(lines[j]).name
  ELSE CurrentSymbol(lines, j - 1)

\* The pairs of the first j lines: one per reference of every line that is
\* no function start, in the order of the text.
RECURSIVE PairsOf(_, _)
PairsOf(lines, j) ==
  IF j = 0 THEN <<>>
  ELSE LET l == LineOf(lines[j]) IN
       PairsOf(lines, j - 1) \o
         (IF l.start THEN <<>>
          ELSE [k \in 1..Len(l.refs) |->
                  <<CurrentSymbol(lines, j - 1), l.refs[k]>>])

C9_NoPairWithoutCaller ==
  \A k \in 1..Len(p_out) : p_out[k][1] # None

(***************************************************************************)
(* The decoder applied to one identifier, and again to its result          *)
(***************************************************************************)

\* The most chunks an identifier is put together from.
MaxChunks == 3

\* Path components as they stand in a mangled name (raw) and as they are
\* to be displayed (shown).
Components ==
  { [raw |-> <<"a">>, shown |-> <<"a">>],
    [raw |-> <<"$", "u", "2", "0", "$">>, shown |-> <<" ">>],
    [raw |-> <<"b", "$", "L", "T", "$", "c", "$", "G", "T", "$">>,
     shown |-> <<"b", "<", "c", ">">>] }

\* A component behind its decimal length.
Mangle(raw) == str(Len(raw)) \o raw

\* What follows the marker, chunk by chunk: well-formed components, and
\* chunks whose length prefix does not fit, is empty or is cut short.
Chunks ==
  { Mangle(c.raw) : c \in Components }
    \cup { <<"9", "a">>, <<"2">>, <<"1", "2", "a", "b">>, <<"0">> }

\* What an identifier ends with.
Tails == { <<>>, <<"E">>, <<"_", "x">>, <<"h", "1", "E">> }

Prefixes == { Marker, <<>>, <<"_", "Z">> }

SpecExample ==
  <<"_","Z","N","4","c","o","r","e","3","f","m","t","5","D","e","b","u","g",
    "9","d","e","b","u","g","_","t","u","p","1","7","h","1","2","3","4","5",
    "6","7","8","9","0","a","b","c","d","e","f","E">>

Identifiers ==
  { p \o Flatten(cs) \o t :
      p \in Prefixes, cs \in SeqsUpTo(Chunks, MaxChunks), t \in Tails }
    \cup { SpecExample }

DStart ==
  /\ d_sym \in Identifiers
  /\ d_ret = Pending
  /\ d_ret2 = Pending
  /\ d_pc = "call"

\* demangle(sym)
Demangle ==
  /\ d_pc = "call"
  /\ d_ret' = demangle_rust(d_sym)
  /\ d_pc' = "returned"
  /\ UNCHANGED <<d_sym, d_ret2, notD>>

\* demangle(demangle(sym)), when the first call returned.
DemangleAgain ==
  /\ d_pc = "returned"
  /\ ~d_ret.err
  /\ d_ret2' = demangle_rust(d_ret.val)
  /\ d_pc' = "twice"
  /\ UNCHANGED <<d_sym, d_ret, notD>>

DNext == Demangle \/ DemangleAgain

DInit == DStart /\ PIdle /\ SIdle /\ MIdle /\ TIdle

SpecDemangle == DInit /\ [][DNext]_vars

\* The well-formed component lists, and the identifier each mangles to
\* before its tail.
ComponentLists == SeqsUpTo(Components, MaxChunks)

MangleAll(cs) == Marker \o Flatten([k \in 1..Len(cs) |-> Mangle(cs[k].raw)])

\* The tails at which the component loop stops: "_" or a non-digit first.
StopTails == { t \in Tails : t # <<>> /\ (t[1] = "_" \/ t[1] \notin Digits) }

\* The display name of the components cs followed by one tail: the last
\* component and the tail dropped, the rest joined with "::".
ShownName(cs) ==
  IF Len(cs) <= 1 THEN <<>>
  ELSE join(<<":", ":">>, [k \in 1..(Len(cs) - 1) |-> cs[k].shown])

\* The number of decimal digits s starts with.
RECURSIVE LeadingDigits(_)
LeadingDigits(s) ==
  IF s # <<>> /\ s[1] \in Digits THEN 1 + LeadingDigits(Drop(s, 1)) ELSE 0

\* C3: demangle_rust returns an identifier without the marker _ZN unchanged,
\* the first time and when applied again to its result; an identifier _ZN,
\* length-prefixed components that fit, and a tail that starts with "_" or a
\* non-digit decodes to the components but the last, joined with "::", with
\* $u20$, $LT$, $GT$ shown as space, < and > (the last component and the
\* tail are the two parts dropped); the example of the specification
\* decodes to core::fmt::Debug::debug_tup.
C3_Decodes ==
  /\ (d_pc # "call" /\ ~StartsWith(d_sym, Marker)) => d_ret = Return(d_sym)
  /\ (d_pc = "twice" /\ ~StartsWith(d_sym, Marker)) => d_ret2 = Return(d_sym)
  /\ \A cs \in ComponentLists, t \in StopTails :
       (d_pc # "call" /\ d_sym = MangleAll(cs) \o t)
         => d_ret = Return(ShownName(cs))
  /\ (d_pc # "call" /\ d_sym = SpecExample)
       => d_ret = Return(<<"c","o","r","e",":",":","f","m","t",":",":",
                           "D","e","b","u","g",":",":",
                           "d","e","b","u","g","_","t","u","p">>)

\* _ZN1a5$u20$10b$LT$c$GT$E has been decoded to "a:: ".
C3_Witness ==
  /\ d_pc = "returned"
  /\ d_sym = Marker \o <<"1", "a", "5", "$", "u", "2", "0", "$", "1", "0",
                         "b", "$", "L", "T", "$", "c", "$", "G", "T", "$", "E">>
  /\ d_ret = Return(<<"a", ":", ":", " ">>)

\* C5: an identifier that starts with _ZN and, after components that fit,
\* holds a length prefix larger than the number of characters that follow it
\* never makes demangle_rust return: the call ends in an exception.
C5_LongPrefixRaises ==
  \A cs \in ComponentLists :
    (d_pc # "call" /\ StartsWith(d_sym, MangleAll(cs))) =>
      LET r == Drop(d_sym, Len(MangleAll(cs)))
          i == LeadingDigits(r)
      IN  (i > 0 /\ int(Take(r, i)) > Len(r) - i) => d_ret.err

\* _ZN1a9aE, whose prefix 9 has two characters after it, has raised.
C5_Witness ==
  /\ d_pc = "returned"
  /\ d_sym = Marker \o <<"1", "a", "9", "a", "E">>
  /\ d_ret.err

(***************************************************************************)
(* symbol_sizes                                                            *)
(***************************************************************************)

HexDigits ==
  <<"0","1","2","3","4","5","6","7","8","9","a","b","c","d","e","f">>

HexUpper == <<"A","B","C","D","E","F">>

IsHex(c) ==
  \/ \E k \in 1..16 : HexDigits[k] = c
  \/ \E k \in 1..6 : HexUpper[k] = c

HexVal(c) ==
  IF \E k \in 1..16 : HexDigits[k] = c
  THEN (CHOOSE k \in 1..16 : HexDigits[k] = c) - 1
  ELSE (CHOOSE k \in 1..6 : HexUpper[k] = c) + 9

RECURSIVE HexNum(_)
HexNum(s) ==
  IF s = <<>> THEN 0
  ELSE 16 * HexNum(SubSeq(s, 1, Len(s) - 1)) + HexVal(s[Len(s)])

\* int(s, 16): an optional sign, an optional 0x, then one hex digit at
\* least; ValueError otherwise. (Surrounding white space and underscores
\* between digits, which int also takes, are in none of the texts tried.)
int16(s) ==
  LET signed == s # <<>> /\ s[1] \in {"+", "-"}
      body == IF signed THEN Drop(s, 1) ELSE s
      prefixed == Len(body) >= 2 /\ body[1] = "0" /\ body[2] \in {"x", "X"}
      digits == IF prefixed THEN Drop(body, 2) ELSE body
  IN  IF digits # <<>> /\ \A k \in 1..Len(digits) : IsHex(digits[k])
      THEN Return(IF signed /\ s[1] = "-" THEN 0 - HexNum(digits)
                  ELSE HexNum(digits))
      ELSE Raise

\* A dict is the sequence of its items in the order of insertion.
HasKey(d, key) == \E k \in 1..Len(d) : d[k].key = key

\* d[key] = val: a new key goes last, an old one keeps its place.
SetItem(d, key, val) ==
  IF HasKey(d, key)
  THEN [k \in 1..Len(d) |->
          IF d[k].key = key THEN [key |-> key, val |-> val] ELSE d[k]]
  ELSE Append(d, [key |-> key, val |-> val])

\* The most lines of a size table.
MaxRows == 3

\* Lines of a size table, each with what it is: a row of four fields with a
\* hexadecimal size (and its name and size) or not.
TableLines ==
  { [text |-> <<"0","0","0","0","0","0","0","0","0","0","0","0","1","0","2",
                "0"," ","0","0","0","0","0","0","0","0","0","0","0","0","0",
                "0","1","0"," ","T"," ","m","y","_","s","y","m","b","o","l">>,
     row |-> TRUE, name |-> <<"m","y","_","s","y","m","b","o","l">>,
     size |-> 16],
    [text |-> <<"1","0"," ","2","0"," ","T"," ","f">>,
     row |-> TRUE, name |-> <<"f">>, size |-> 32],
    [text |-> <<"1","0"," ","0","8"," ","T"," ","f">>,
     row |-> TRUE, name |-> <<"f">>, size |-> 8],
    [text |-> <<"1","0"," ","1","f"," ","t"," ","g">>,
     row |-> TRUE, name |-> <<"g">>, size |-> 31],
    [text |-> <<" "," ","U"," ","h">>,
     row |-> FALSE, name |-> <<>>, size |-> 0],
    [text |-> <<"1","0"," ","T"," ","f">>,
     row |-> FALSE, name |-> <<>>, size |-> 0],
    [text |-> <<"1","0"," ","z","z"," ","T"," ","f">>,
     row |-> FALSE, name |-> <<>>, size |-> 0],
    [text |-> <<"a"," ","b"," ","c"," ","d"," ","e">>,
     row |-> FALSE, name |-> <<>>, size |-> 0],
    [text |-> <<>>,
     row |-> FALSE, name |-> <<>>, size |-> 0] }

Tables ==
  { join(<<"\n">>, [k \in 1..Len(ls) |-> ls[k].text]) :
      ls \in SeqsUpTo(TableLines, MaxRows) }

\* symbol_sizes up to the loop, with the output of nm: sizes = {}.
SStart ==
  /\ nm_out \in Tables
  /\ s_i = 0
  /\ sizes = <<>>
  /\ s_pc = "loop"

\* out.split('\n')
NmLines == split(nm_out, "\n")

\* line.split(' ') of the line the loop is at.
Parts == split(NmLines[s_i + 1], " ")

\* One turn of the loop on a line of four fields whose second is a number:
\* sizes[symbol] = size.
SizesRow ==
  /\ s_pc = "loop"
  /\ s_i < Len(NmLines)
  /\ Len(Parts) = 4
  /\ ~int16(Parts[2]).err
  /\ sizes' = SetItem(sizes, Parts[4], int16(Parts[2]).val)
  /\ s_i' = s_i + 1
  /\ UNCHANGED <<nm_out, s_pc, notS>>

\* One turn of the loop on a line of four fields whose second is no number:
\* int raises ValueError, which nothing catches.
SizesRaise ==
  /\ s_pc = "loop"
  /\ s_i < Len(NmLines)
  /\ Len(Parts) = 4
  /\ int16(Parts[2]).err
  /\ s_pc' = "raised"
  /\ UNCHANGED <<nm_out, s_i, sizes, notS>>

\* One turn of the loop on a line that has not four fields.
SizesSkip ==
  /\ s_pc = "loop"
  /\ s_i < Len(NmLines)
  /\ Len(Parts) # 4
  /\ s_i' = s_i + 1
  /\ UNCHANGED <<nm_out, sizes, s_pc, notS>>

\* return sizes
SizesReturn ==
  /\ s_pc = "loop"
  /\ s_i = Len(NmLines)
  /\ s_pc' = "done"
  /\ UNCHANGED <<nm_out, s_i, sizes, notS>>

SNext == SizesRow \/ SizesRaise \/ SizesSkip \/ SizesReturn

SInit == SStart /\ DIdle /\ PIdle /\ MIdle /\ TIdle

SpecSizes == SInit /\ [][SNext]_vars

\* The line of TableLines with this text.
RowOf(text) == CHOOSE l \in TableLines : l.text = text

\* The mapping of the first j lines: the last size of every name a row gives.
LastSize(lines, j, name) ==
  LET K == {k \in 1..j : RowOf(lines[k]).row /\ RowOf(lines[k]).name = name}
  IN  RowOf(lines[CHOOSE k \in K : \A m \in K : m <= k]).size

\* C8: the line loop of symbol_sizes never ends in an error; after any number
\* of lines, sizes holds exactly the names of the rows read that have four
\* fields and a hexadecimal size, each with the size of its last row, and
\* every other line (one whose size field is no number too) has added nothing.
C8_NeverAnError ==
  /\ s_pc # "raised"
  /\ s_pc \in {"loop", "done"} =>
       /\ \A k \in 1..Len(sizes) :
            /\ \E j \in 1..s_i :
                 RowOf(NmLines[j]).row /\ RowOf(NmLines[j]).name = sizes[k].key
            /\ sizes[k].val = LastSize(NmLines, s_i, sizes[k].key)
       /\ \A j \in 1..s_i :
            RowOf(NmLines[j]).row => HasKey(sizes, RowOf(NmLines[j]).name)

(***************************************************************************)
(* to_dot and to_digraph, as main runs them with demangle = demangle_rust  *)
(***************************************************************************)

\* encode_symbol(demangle(sym)), or Raise when demangle raises.
display(sym) ==
  LET d == demangle_rust(sym) IN
  IF d.err THEN Raise ELSE Return(encode_symbol(d.val))

\* print(f'  "{src}" -> "{dest}";')
edge_line(src, dest) ==
  <<" ", " ", "\"">> \o src \o <<"\"", " ", "-", ">", " ", "\"">> \o dest
    \o <<"\"", ";">>

\* print(f'  "{sym}" [size={size} label="{sym}\\n{size} bytes"];')
size_line(sym, size) ==
  <<" ", " ", "\"">> \o sym \o <<"\"", " ", "[", "s", "i", "z", "e", "=">>
    \o str(size) \o <<" ", "l", "a", "b", "e", "l", "=", "\"">> \o sym
    \o <<"\\", "n">> \o str(size)
    \o <<" ", "b", "y", "t", "e", "s", "\"", "]", ";">>

\* A line of standard output, with the print statement that wrote it.
Printed(kind, text) == [kind |-> kind, text |-> text]

\* gr.add_edge(src, dest) on a DiGraph: both ends become nodes, and the
\* pair an edge unless it is one.
add_edge(g, src, dest) ==
  [g EXCEPT !.nodes = @ \cup {src, dest}, !.edges = @ \cup {<<src, dest>>}]

\* The most pairs the disassembly yields.
MaxEdges == 3

\* Names as the tools give them (raw) and as the graph shows them (shown).
Symbols ==
  { [raw |-> <<"f">>, shown |-> <<"f">>],
    [raw |-> <<"_", "Z", "N", "1", "f", "1", "h", "E">>, shown |-> <<"f">>],
    [raw |-> <<"g">>, shown |-> <<"g">>],
    [raw |-> <<"q", "\"">>, shown |-> <<"q", "\\", "\"">>] }

\* What symbol_ref_edges yields: parse_edges gives names of word characters,
\* and None for the caller of a reference before the first function.
Callers == { <<"f">>, <<"g">>, None }

Callees == { <<"f">>, <<"_", "Z", "N", "1", "f", "1", "h", "E">>, <<"g">> }

\* What symbol_sizes returns. _ZN1f is a name demangle_rust raises on.
SizeTables ==
  { <<>>,
    << [key |-> <<"f">>, val |-> 16] >>,
    << [key |-> <<"_", "Z", "N", "1", "f", "1", "h", "E">>, val |-> 8],
       [key |-> <<"q", "\"">>, val |-> 2] >>,
    << [key |-> <<"g">>, val |-> 4],
       [key |-> <<"_", "Z", "N", "1", "f">>, val |-> 1] >> }

EmptyGraph == [nodes |-> {}, edges |-> {}, size |-> <<>>]

\* main calls to_dot, and to_digraph after it when --dom-tree is given;
\* to_digraph may also be called by itself.
MStart ==
  /\ edges \in SeqsUpTo(Callers \X Callees, MaxEdges)
  /\ table \in SizeTables
  /\ m_i = 0
  /\ stdout = <<>>
  /\ gr = EmptyGraph
  /\ m_pc \in {"dot_open", "dg_objdump"}

\* to_dot: print('digraph {')
DotOpen ==
  /\ m_pc = "dot_open"
  /\ stdout' = Append(stdout, Printed("open", <<"d","i","g","r","a","p","h"," ","{">>))
  /\ m_pc' = "dot_objdump"
  /\ UNCHANGED <<edges, table, m_i, gr, notM>>

\* subprocess.check_output raises: objdump or nm is missing or exits with
\* an error. Nothing catches it in to_dot, to_digraph or main.
ToolFails ==
  /\ m_pc \in {"dot_objdump", "dot_nm", "dg_objdump", "dg_nm"}
  /\ m_pc' = "failed"
  /\ UNCHANGED <<edges, table, m_i, stdout, gr, notM>>

\* to_dot: the first step of symbol_ref_edges, objdump has run.
DotObjdump ==
  /\ m_pc = "dot_objdump"
  /\ m_pc' = "dot_edges"
  /\ m_i' = 0
  /\ UNCHANGED <<edges, table, stdout, gr, notM>>

\* The edge loop of to_dot writing a pair only the first time it comes.
DotEdgeOnce ==
  /\ m_pc = "dot_edges"
  /\ m_i < Len(edges)
  /\ LET src == display(edges[m_i + 1][1])
         dest == display(edges[m_i + 1][2])
         line == Printed("edge", edge_line(src.val, dest.val))
     IN  /\ ~src.err /\ ~dest.err
         /\ stdout' = IF \E k \in 1..Len(stdout) : stdout[k] = line
                      THEN stdout ELSE Append(stdout, line)
  /\ m_i' = m_i + 1
  /\ UNCHANGED <<edges, table, gr, m_pc, notM>>

\* to_dot: one turn of the edge loop.
DotEdge ==
  /\ m_pc = "dot_edges"
  /\ m_i < Len(edges)
  /\ LET src == display(edges[m_i + 1][1])
         dest == display(edges[m_i + 1][2])
     IN  /\ ~src.err /\ ~dest.err
         /\ stdout' = Append(stdout, Printed("edge", edge_line(src.val, dest.val)))
  /\ m_i' = m_i + 1
  /\ UNCHANGED <<edges, table, gr, m_pc, notM>>

\* to_dot: the end of the edge loop.
DotEdgesEnd ==
  /\ m_pc = "dot_edges"
  /\ m_i = Len(edges)
  /\ m_pc' = "dot_nm"
  /\ UNCHANGED <<edges, table, m_i, stdout, gr, notM>>

\* to_dot: symbol_sizes has returned.
DotNm ==
  /\ m_pc = "dot_nm"
  /\ m_pc' = "dot_sizes"
  /\ m_i' = 0
  /\ UNCHANGED <<edges, table, stdout, gr, notM>>

\* to_dot: one turn of the size loop.
DotSize ==
  /\ m_pc = "dot_sizes"
  /\ m_i < Len(table)
  /\ LET sym == display(table[m_i + 1].key) IN
     /\ ~sym.err
     /\ stdout' = Append(stdout,
                         Printed("size", size_line(sym.val, table[m_i + 1].val)))
  /\ m_i' = m_i + 1
  /\ UNCHANGED <<edges, table, gr, m_pc, notM>>

\* to_dot: print('}')
DotClose ==
  /\ m_pc = "dot_sizes"
  /\ m_i = Len(table)
  /\ stdout' = Append(stdout, Printed("close", <<"}">>))
  /\ m_pc' = "dot_done"
  /\ UNCHANGED <<edges, table, m_i, gr, notM>>

\* to_dot or to_digraph: demangle raises on a name of the pair or of the
\* size entry the loop is at (None or a name the decoder cannot read).
NameRaises ==
  /\ \/ /\ m_pc \in {"dot_edges", "dg_edges"}
        /\ m_i < Len(edges)
        /\ display(edges[m_i + 1][1]).err \/ display(edges[m_i + 1][2]).err
     \/ /\ m_pc \in {"dot_sizes", "dg_sizes"}
        /\ m_i < Len(table)
        /\ display(table[m_i + 1].key).err
  /\ m_pc' = "raised"
  /\ UNCHANGED <<edges, table, m_i, stdout, gr, notM>>

\* main: args.dom_tree is not None, to_digraph is called.
MainDigraph ==
  /\ m_pc = "dot_done"
  /\ m_pc' = "dg_objdump"
  /\ UNCHANGED <<edges, table, m_i, stdout, gr, notM>>

\* to_digraph: gr = nx.DiGraph(), and objdump has run.
DigraphObjdump ==
  /\ m_pc = "dg_objdump"
  /\ gr' = EmptyGraph
  /\ m_pc' = "dg_edges"
  /\ m_i' = 0
  /\ UNCHANGED <<edges, table, stdout, notM>>

\* The edge loop of to_digraph with dest not decoded.
DigraphEdgeRawDest ==
  /\ m_pc = "dg_edges"
  /\ m_i < Len(edges)
  /\ LET src == display(edges[m_i + 1][1])
         dest == display(edges[m_i + 1][2])
     IN  /\ ~src.err /\ ~dest.err
         /\ gr' = add_edge(gr, src.val, edges[m_i + 1][2])
  /\ m_i' = m_i + 1
  /\ UNCHANGED <<edges, table, stdout, m_pc, notM>>

\* to_digraph: one turn of the edge loop.
DigraphEdge ==
  /\ m_pc = "dg_edges"
  /\ m_i < Len(edges)
  /\ LET src == display(edges[m_i + 1][1])
         dest == display(edges[m_i + 1][2])
     IN  /\ ~src.err /\ ~dest.err
         /\ gr' = add_edge(gr, src.val, dest.val)
  /\ m_i' = m_i + 1
  /\ UNCHANGED <<edges, table, stdout, m_pc, notM>>

\* to_digraph: the end of the edge loop.
DigraphEdgesEnd ==
  /\ m_pc = "dg_edges"
  /\ m_i = Len(edges)
  /\ m_pc' = "dg_nm"
  /\ UNCHANGED <<edges, table, m_i, stdout, gr, notM>>

\* to_digraph: symbol_sizes has returned.
DigraphNm ==
  /\ m_pc = "dg_nm"
  /\ m_pc' = "dg_sizes"
  /\ m_i' = 0
  /\ UNCHANGED <<edges, table, stdout, gr, notM>>

\* to_digraph: one turn of the size loop: the size is set on a node of the
\* graph and dropped otherwise.
DigraphSize ==
  /\ m_pc = "dg_sizes"
  /\ m_i < Len(table)
  /\ LET sym == display(table[m_i + 1].key) IN
     /\ ~sym.err
     /\ gr' = IF sym.val \in gr.nodes
              THEN [gr EXCEPT !.size = SetItem(@, sym.val, table[m_i + 1].val)]
              ELSE gr
  /\ m_i' = m_i + 1
  /\ UNCHANGED <<edges, table, stdout, m_pc, notM>>

\* to_digraph: return gr
DigraphReturn ==
  /\ m_pc = "dg_sizes"
  /\ m_i = Len(table)
  /\ m_pc' = "dg_done"
  /\ UNCHANGED <<edges, table, m_i, stdout, gr, notM>>

MNext ==
  \/ DotOpen \/ ToolFails \/ DotObjdump \/ DotEdge \/ DotEdgesEnd \/ DotNm
  \/ DotSize \/ DotClose \/ NameRaises \/ MainDigraph \/ DigraphObjdump
  \/ DigraphEdge \/ DigraphEdgesEnd \/ DigraphNm \/ DigraphSize
  \/ DigraphReturn

MInit == MStart /\ DIdle /\ PIdle /\ SIdle /\ TIdle

SpecMain == MInit /\ [][MNext]_vars

\* The shown name of a raw one.
ShownOf(raw) == (CHOOSE s \in Symbols : s.raw = raw).shown

\* The pairs of shown names of the first n pairs of the disassembly.
ShownPairs(n) ==
  { <<ShownOf(edges[k][1]), ShownOf(edges[k][2])>> : k \in 1..n }

\* C2: while and after to_digraph reads the pairs, the edges of the graph are
\* exactly the distinct pairs (encode_symbol(demangle(caller)),
\* encode_symbol(demangle(callee))) read so far, however often a pair came,
\* and the nodes are exactly the ends of these edges, with or without an
\* entry in the size table.
C2_EdgesAreDistinctPairs ==
  m_pc \in {"dg_edges", "dg_nm", "dg_sizes", "dg_done"} =>
    LET seen == ShownPairs(IF m_pc = "dg_edges" THEN m_i ELSE Len(edges)) IN
    /\ gr.edges = seen
    /\ gr.nodes = { e[1] : e \in seen } \cup { e[2] : e \in seen }
    /\ Cardinality(gr.edges) <= Len(edges)

\* to_digraph has returned a graph of two edges from three pairs, two of
\* which decode to the same edge, with a node that has no size.
C2_Witness ==
  /\ m_pc = "dg_done"
  /\ Len(edges) = 3
  /\ Cardinality(gr.edges) = 2
  /\ \E n \in gr.nodes : ~HasKey(gr.size, n)

\* The lines to_dot writes for the pairs and for the size entries.
EdgeLines ==
  [k \in 1..Len(edges) |->
     Printed("edge", edge_line(ShownOf(edges[k][1]), ShownOf(edges[k][2])))]

SizeLines ==
  [k \in 1..Len(table) |->
     Printed("size", size_line(ShownOf(table[k].key), table[k].val))]

\* C7, as amended: the description a completed to_dot has written holds,
\* between the opening and the closing line, one edge line per pair the
\* disassembly yields, in its order and as often as the pair comes, and then
\* one annotation line per entry of the size table, an end of an edge or not.
C7_LinePerPairAndEntry ==
  (stdout # <<>> /\ stdout[Len(stdout)].kind = "close") =>
    stdout = <<Printed("open", <<"d","i","g","r","a","p","h"," ","{">>)>>
               \o EdgeLines \o SizeLines \o <<Printed("close", <<"}">>)>>

\* to_dot is done with a pair that came twice and a size entry whose name
\* is no end of an edge.
C7_Witness ==
  /\ m_pc = "dot_done"
  /\ Len(edges) >= 2 /\ edges[1] = edges[2]
  /\ \E k \in 1..Len(table) :
       \A j \in 1..Len(edges) :
         ShownOf(table[k].key) \notin {ShownOf(edges[j][1]), ShownOf(edges[j][2])}

\* The lines of one print statement.
LinesOf(kind) == { k \in 1..Len(stdout) : stdout[k].kind = kind }

\* C7: once main has run to_dot and to_digraph, the description holds one
\* edge line per edge of the graph and one annotation line per node of the
\* graph that has a size, and no other edge or annotation line.
C7_LinePerGraphEdge ==
  (m_pc = "dg_done" /\ stdout # <<>>) =>
    /\ Cardinality(LinesOf("edge")) = Cardinality(gr.edges)
    /\ { stdout[k].text : k \in LinesOf("edge") }
         = { edge_line(e[1], e[2]) : e \in gr.edges }
    /\ Cardinality(LinesOf("size")) = Len(gr.size)
    /\ { stdout[k].text : k \in LinesOf("size") }
         = { size_line(gr.size[j].key, gr.size[j].val) : j \in 1..Len(gr.size) }

\* C10: in a run in which objdump or nm fails, no line has been written.
C10_NothingWrittenOnFailure ==
  m_pc = "failed" => stdout = <<>>

(***************************************************************************)
(* dominator_tree                                                          *)
(***************************************************************************)

\* The most edges of a graph.
MaxArcs == 5

\* The names the nodes are taken from.
Names == {"A", "B", "C", "D"}

\* The nodes a path of g leads to from the nodes of S.
RECURSIVE Reachable(_, _)
Reachable(g, S) ==
  LET T == S \cup { e[2] : e \in { d \in g.edges : d[1] \in S } } IN
  IF T = S THEN S ELSE Reachable(g, T)

\* The sets of dominators as the solution of the data-flow equations
\*   Dom(start) = {start},  Dom(n) = {n} + the Dom(p) of the predecessors p
\* of n reachable from start, all intersected; D is iterated until it is stable.
RECURSIVE DomSets(_, _, _)
DomSets(g, start, D) ==
  LET R == DOMAIN D
      E == [n \in R |->
              IF n = start THEN {start}
              ELSE {n} \cup { d \in R :
                      \A p \in R : <<p, n>> \in g.edges => d \in D[p] }]
  IN  IF E = D THEN D ELSE DomSets(g, start, E)

\* nx.algorithms.dominance.immediate_dominators(G, start): the dict of the
\* immediate dominator of every node reachable from start, start being its
\* own. The strict dominators of a node are a chain, and its immediate one is
\* the last of them: the one with the most dominators.
immediate_dominators(g, start) ==
  LET R == Reachable(g, {start})
      D == DomSets(g, start, [n \in R |-> R])
  IN  [n \in R |->
         IF n = start THEN start
         ELSE CHOOSE d \in D[n] \ {n} :
                \A c \in D[n] \ {n} : Cardinality(D[c]) <= Cardinality(D[d])]

RECURSIVE AddAll(_, _, _)
AddAll(t, doms, todo) ==
  IF todo = {} THEN t
  ELSE LET a == CHOOSE x \in todo : TRUE IN
       AddAll(add_edge(t, a, doms[a]), doms, todo \ {a})

\* The tree with tr.add_edge(b, a) in the place of tr.add_edge(a, b).
RECURSIVE AddAllReversed(_, _, _)
AddAllReversed(t, doms, todo) ==
  IF todo = {} THEN t
  ELSE LET a == CHOOSE x \in todo : TRUE IN
       AddAllReversed(add_edge(t, doms[a], a), doms, todo \ {a})

dominator_tree_reversed(g, start) ==
  LET doms == immediate_dominators(g, start) IN
  AddAllReversed([nodes |-> {}, edges |-> {}], doms, DOMAIN doms)

\* dominator_tree(gr, n0) for a node n0 of gr: an edge a -> b for every item
\* (a, b) of doms.
dominator_tree(g, start) ==
  LET doms == immediate_dominators(g, start) IN
  AddAll([nodes |-> {}, edges |-> {}], doms, DOMAIN doms)

\* The graph to_digraph builds, before any edge.
TStart ==
  /\ t_gr = [nodes |-> {}, edges |-> {}]
  /\ n0 = ""
  /\ tr = [nodes |-> {}, edges |-> {}]
  /\ t_pc = "build"

\* to_digraph: gr.add_edge(src, dest)
AddEdge ==
  /\ t_pc = "build"
  /\ \E src \in Names, dest \in Names :
       /\ <<src, dest>> \in t_gr.edges \/ Cardinality(t_gr.edges) < MaxArcs
       /\ t_gr' = add_edge(t_gr, src, dest)
  /\ UNCHANGED <<n0, tr, t_pc, notT>>

\* main: dom_tree = dominator_tree(gr, n0), n0 a node of gr.
DominatorTree ==
  /\ t_pc = "build"
  /\ \E root \in t_gr.nodes :
       /\ n0' = root
       /\ tr' = dominator_tree(t_gr, root)
  /\ t_pc' = "done"
  /\ UNCHANGED <<t_gr, notT>>

\* main: dominator_tree(gr, n0), n0 no node of gr: immediate_dominators
\* raises NetworkXError.
DominatorTreeRaises ==
  /\ t_pc = "build"
  /\ \E root \in Names \ t_gr.nodes : n0' = root
  /\ t_pc' = "raised"
  /\ UNCHANGED <<t_gr, tr, notT>>

TNext == AddEdge \/ DominatorTree \/ DominatorTreeRaises

TInit == TStart /\ DIdle /\ PIdle /\ SIdle /\ MIdle

SpecDom == TInit /\ [][TNext]_vars

\* The paths of t_gr without a repeated node, as sequences of nodes.
SimplePaths ==
  { p \in UNION { [1..k -> t_gr.nodes] : k \in 1..Cardinality(t_gr.nodes) } :
      /\ \A i, j \in 1..Len(p) : i # j => p[i] # p[j]
      /\ \A i \in 1..(Len(p) - 1) : <<p[i], p[i + 1]>> \in t_gr.edges }

PathsTo(a) == { p \in SimplePaths : p[1] = n0 /\ p[Len(p)] = a }

\* b dominates a: b lies on every path from n0 to a. (A path with a repeated
\* node passes all the nodes of one without.)
Dominates(b, a) == \A p \in PathsTo(a) : \E i \in 1..Len(p) : p[i] = b

\* b is the immediate dominator of a.
IsImmediateDominator(b, a) ==
  /\ b # a
  /\ Dominates(b, a)
  /\ \A c \in t_gr.nodes : (c # a /\ c # b /\ Dominates(c, a)) => Dominates(c, b)

\* C1: dominator_tree relates every node a reachable from n0 and other than
\* n0 to exactly one node b, the immediate dominator of a; a node not
\* reachable from n0 is no node of the result; the edges A->B, A->C, B->D,
\* C->D with root A give B:A, C:A, D:A.
C1_ImmediateDominators ==
  t_pc = "done" =>
    /\ \A a \in t_gr.nodes \ {n0} :
         IF PathsTo(a) # {}
         THEN \E b \in t_gr.nodes :
                /\ { e \in tr.edges : e[1] = a } = { <<a, b>> }
                /\ IsImmediateDominator(b, a)
         ELSE a \notin tr.nodes
    /\ ( /\ t_gr.edges = { <<"A", "B">>, <<"A", "C">>, <<"B", "D">>, <<"C", "D">> }
         /\ n0 = "A" )
         => { e \in tr.edges : e[1] # n0 }
              = { <<"B", "A">>, <<"C", "A">>, <<"D", "A">> }

\* The tree of A->B, B->C, A->C, D->A from A: C is related to A and not to B,
\* and D is left out.
C1_Witness ==
  /\ t_pc = "done"
  /\ n0 = "A"
  /\ t_gr.edges = { <<"A", "B">>, <<"B", "C">>, <<"A", "C">>, <<"D", "A">> }
  /\ <<"C", "A">> \in tr.edges
  /\ "D" \notin tr.nodes

\* The nodes the edges of tr lead to from a in at most k steps.
RECURSIVE Chain(_, _)
Chain(a, k) ==
  IF k = 0 THEN <<a>>
  ELSE LET c == Chain(a, k - 1)
           out == { e \in tr.edges : e[1] = c[Len(c)] }
       IN  IF c[Len(c)] = n0 \/ out = {} THEN c
           ELSE Append(c, (CHOOSE e \in out : TRUE)[2])

\* C6: in the result of dominator_tree no edge leaves n0 (n0 -> n0 neither),
\* and the edges from any node of the result lead to n0 without passing a
\* node twice.
C6_TreeRootedAtRoot ==
  t_pc = "done" =>
    /\ \A e \in tr.edges : e[1] # n0
    /\ \A a \in tr.nodes :
         LET c == Chain(a, Cardinality(tr.nodes)) IN
         /\ c[Len(c)] = n0
         /\ \A i, j \in 1..Len(c) : i # j => c[i] # c[j]

====
